---- MODULE Spec2Model ----
(***************************************************************************)
(* A model of src/bot.py: the two cached client operations                 *)
(* (search_players, get_min_price), the conversation handlers, the way     *)
(* main() wires them into the chat transport, and the self_ping thread.    *)
(*                                                                         *)
(* Python values are modelled as tagged records [k, v]; a Python            *)
(* computation yields [exc, val], exc = "" when it returned normally.      *)
(***************************************************************************)
EXTENDS Integers, Sequences, FiniteSets, TLC

(***************************************************************************)
(* Program constants.                                                      *)
(***************************************************************************)
CACHE_TIME == 600
PRICES_TTL == 300
SELECT_PLAYER == 1
PING_INTERVAL == 300
ConversationHandler_END == -1

(***************************************************************************)
(* Bounds of the model.  The clock advances in steps of TickStep seconds   *)
(* up to MaxTime.                                                          *)
(***************************************************************************)
TickStep == 150
MaxTime == 600

(***************************************************************************)
(* Python / JSON values.                                                   *)
(***************************************************************************)
JNull == [k |-> "null", v |-> <<>>]
JObj(f) == [k |-> "obj", v |-> f]
JArr(s) == [k |-> "arr", v |-> s]
JStr(s) == [k |-> "str", v |-> s]
JNum(n) == [k |-> "num", v |-> n]
PyNone == JNull
EmptyDict == JObj(<<>>)
EmptyList == JArr(<<>>)

\* bool(v): None, {}, [], "" and 0 are falsy.
Truthy(x) ==
    CASE x.k = "null" -> FALSE
      [] x.k = "obj" -> DOMAIN x.v # {}
      [] x.k = "arr" -> Len(x.v) > 0
      [] x.k = "str" -> x.v # <<>>
      [] x.k = "num" -> x.v # 0

\* A computation that returned val / that raised exc.
Ok(val) == [exc |-> "", val |-> val]
Raise(e) == [exc |-> e, val |-> PyNone]

\* r, then F on its value unless r raised.
Bind(r, F(_)) == IF r.exc # "" THEN r ELSE F(r.val)

\* x.get(key, default): only a dict has .get.
DictGet(x, key, default) ==
    IF x.k = "obj"
    THEN Ok(IF key \in DOMAIN x.v THEN x.v[key] ELSE default)
    ELSE Raise("AttributeError")

\* x[key] with a string key.
Subscript(x, key) ==
    IF x.k = "obj"
    THEN (IF key \in DOMAIN x.v THEN Ok(x.v[key]) ELSE Raise("KeyError"))
    ELSE Raise("TypeError")

\* The classes an exception is an instance of (below Exception).
Ancestors(e) ==
    CASE e = "ConnectionError" -> {"ConnectionError", "RequestException", "OSError"}
      [] e = "Timeout" -> {"Timeout", "RequestException", "OSError"}
      [] e = "HTTPError" -> {"HTTPError", "RequestException", "OSError"}
      [] e = "requests.JSONDecodeError" ->
             {"requests.JSONDecodeError", "RequestException", "OSError", "ValueError"}
      [] e = "KeyError" -> {"KeyError", "LookupError"}
      [] OTHER -> {e}

\* except <classes>: does the clause catch e?
Catches(classes, e) == e # "" /\ Ancestors(e) \cap classes # {}

(***************************************************************************)
(* Text.  A message text is a non-empty sequence of tokens; " " stands for *)
(* white space and a token that starts a bot command is one of Commands.   *)
(***************************************************************************)
Commands == {"/start", "/cancel", "/foo"}

RECURSIVE lstrip(_)
lstrip(t) == IF t # <<>> /\ Head(t) = " " THEN lstrip(Tail(t)) ELSE t

RECURSIVE rstrip(_)
rstrip(t) ==
    IF t # <<>> /\ t[Len(t)] = " " THEN rstrip(SubSeq(t, 1, Len(t) - 1)) ELSE t

\* str.strip()
strip(t) == rstrip(lstrip(t))

(***************************************************************************)
(* TTLCache: key -> [val, expires, stored].  An item is served while       *)
(* timer() < expires; setting an item first drops the expired ones.  The   *)
(* model holds far fewer keys than maxsize, so nothing is ever evicted for *)
(* capacity.  stored is the time the item was set: the cache never reads   *)
(* it, the properties below do.                                            *)
(***************************************************************************)
EmptyCache == <<>>

Live(cache, key, now) == key \in DOMAIN cache /\ now < cache[key].expires

\* cache.get(key) of a cache that never expires an item
CacheGetNoExpiry(cache, key, now) ==
    IF key \in DOMAIN cache THEN cache[key].val ELSE PyNone

\* cache.get(key): the value, or None
CacheGet(cache, key, now) ==
    IF Live(cache, key, now) THEN cache[key].val ELSE PyNone

\* when the item under key was set, -1 when the cache holds none
StoredAt(cache, key) ==
    IF key \in DOMAIN cache THEN cache[key].stored ELSE -1

\* cache[key] = val
CacheSet(cache, ttl, key, val, now) ==
    LET keep == {k \in DOMAIN cache : now < cache[k].expires} \cup {key}
    IN  [k \in keep |-> IF k = key THEN [val |-> val, expires |-> now + ttl,
                                          stored |-> now]
                        ELSE cache[k]]

(***************************************************************************)
(* An outbound HTTP request ends in a transport error, or in a response    *)
(* with a status and a body that is JSON text or not.                      *)
(***************************************************************************)
Response(status, body) ==
    [net |-> "ok", status |-> status, isJson |-> TRUE, body |-> body]
NotJson(status) ==
    [net |-> "ok", status |-> status, isJson |-> FALSE, body |-> PyNone]
NetFail(e) ==
    [net |-> e, status |-> 0, isJson |-> FALSE, body |-> PyNone]

\* requests.post(...): raises on a transport error
Post(o) == IF o.net # "ok" THEN Raise(o.net) ELSE Ok(PyNone)

\* response.raise_for_status(): HTTPError on 4xx and 5xx
RaiseForStatus(o) ==
    IF o.status >= 400 /\ o.status < 600 THEN Raise("HTTPError") ELSE Ok(PyNone)

\* response.json(): requests raises its own JSONDecodeError, a
\* RequestException and a ValueError, for a body that is not JSON
ResponseJson(o) ==
    IF o.isJson THEN Ok(o.body) ELSE Raise("requests.JSONDecodeError")


(***************************************************************************)
(* search_players.                                                         *)
(***************************************************************************)
\* if cached is not None: return cached
PlayersHitNotNone(cached) == cached # PyNone

\* if cached: return cached
PlayersHit(cached) == Truthy(cached)

\* the try block: post, raise_for_status, json, the chain of .get
search_players_try(o) ==
    Bind(Post(o), LAMBDA r0 :
    Bind(RaiseForStatus(o), LAMBDA r1 :
    Bind(ResponseJson(o), LAMBDA data :
    Bind(DictGet(data, "data", EmptyDict), LAMBDA d1 :
    Bind(DictGet(d1, "football", EmptyDict), LAMBDA d2 :
    Bind(DictGet(d2, "allPlayers", EmptyDict), LAMBDA d3 :
    DictGet(d3, "nodes", EmptyList)))))))

\* the classes the except clauses of search_players name
SearchExcept == {"RequestException", "KeyError"}

\* search_players after a cache miss, the request ending in o:
\* [exc, val, cache]
search_players_remote(cache, name, now, o) ==
    LET r == search_players_try(o)
    IN  IF r.exc = ""
        THEN [exc |-> "", val |-> r.val,
              cache |-> CacheSet(cache, CACHE_TIME, name, r.val, now)]
        ELSE IF Catches(SearchExcept, r.exc)
        THEN [exc |-> "", val |-> EmptyList, cache |-> cache]
        ELSE [exc |-> r.exc, val |-> PyNone, cache |-> cache]

(***************************************************************************)
(* get_min_price.  A float is a number of hundredths.                      *)
(***************************************************************************)
\* if cached is not None: return cached
PriceHit(cached) == cached # PyNone

FloatTable ==
    (<<"1.5">> :> 150) @@ (<<"0.9">> :> 90) @@ (<<"0">> :> 0)

\* float(x)
PyFloat(x) ==
    CASE x.k = "num" -> Ok(x.v)
      [] x.k = "str" ->
            IF strip(x.v) \in DOMAIN FloatTable
            THEN Ok(FloatTable[strip(x.v)])
            ELSE Raise("ValueError")
      [] OTHER -> Raise("TypeError")

\* for card in x: the items x yields (a dict yields its keys, a str its
\* characters, both strings)
Iter(x) ==
    CASE x.k = "arr" -> Ok(x.v)
      [] x.k = "obj" -> Ok([i \in 1..Cardinality(DOMAIN x.v) |-> JStr(<<"key">>)])
      [] x.k = "str" -> Ok([i \in 1..Len(x.v) |-> JStr(<<x.v[i]>>)])
      [] OTHER -> Raise("TypeError")

\* [float(card["price"]) for card in cards if card.get("price")], from i on
RECURSIVE CollectPrices(_, _)
CollectPrices(cards, i) ==
    IF i > Len(cards) THEN Ok(<<>>)
    ELSE LET card == cards[i]
         IN  Bind(DictGet(card, "price", PyNone), LAMBDA p :
             IF Truthy(p)
             THEN Bind(Subscript(card, "price"), LAMBDA q :
                  Bind(PyFloat(q), LAMBDA f :
                  Bind(CollectPrices(cards, i + 1), LAMBDA rest :
                  Ok(<<f>> \o rest))))
             ELSE CollectPrices(cards, i + 1))

\* min(prices) of a non-empty list
RECURSIVE PyMin(_)
PyMin(prices) ==
    IF Len(prices) = 1 THEN prices[1]
    ELSE LET m == PyMin(Tail(prices))
         IN  IF m < prices[1] THEN m ELSE prices[1]

\* cards = player_data.get("cards", {}).get("nodes", []) and the list of
\* prices
CardPrices(player_data) ==
    Bind(DictGet(player_data, "cards", EmptyDict), LAMBDA c1 :
    Bind(DictGet(c1, "nodes", EmptyList), LAMBDA cards :
    Bind(Iter(cards), LAMBDA items :
    Bind(CollectPrices(items, 1), LAMBDA prices :
    Ok(JArr(prices))))))

\* the try block up to the prices: [exc, val], val the list of prices or
\* None when player_data is falsy
get_min_price_try(o) ==
    Bind(Post(o), LAMBDA r0 :
    Bind(RaiseForStatus(o), LAMBDA r1 :
    Bind(ResponseJson(o), LAMBDA data :
    Bind(DictGet(data, "data", EmptyDict), LAMBDA d1 :
    Bind(DictGet(d1, "football", EmptyDict), LAMBDA d2 :
    Bind(DictGet(d2, "player", EmptyDict), LAMBDA player_data :
    IF ~Truthy(player_data) THEN Ok(PyNone) ELSE CardPrices(player_data)))))))

\* the classes the except clauses of get_min_price name
PriceExcept == {"RequestException", "KeyError", "ValueError"}

\* get_min_price storing the outcome "no priced card" too
get_min_price_store_none(cache, slug, now, prices) ==
    IF prices = PyNone
    THEN [exc |-> "", val |-> PyNone, cache |-> cache]
    ELSE IF ~Truthy(prices)
    THEN [exc |-> "", val |-> PyNone,
          cache |-> CacheSet(cache, PRICES_TTL, slug, PyNone, now)]
    ELSE LET min_price == JNum(PyMin(prices.v))
         IN  [exc |-> "", val |-> min_price,
              cache |-> CacheSet(cache, PRICES_TTL, slug, min_price, now)]

\* what the try block does with the prices: return None, or store and
\* return the minimum
get_min_price_store(cache, slug, now, prices) ==
    IF prices = PyNone \/ ~Truthy(prices)
    THEN [exc |-> "", val |-> PyNone, cache |-> cache]
    ELSE LET min_price == JNum(PyMin(prices.v))
         IN  [exc |-> "", val |-> min_price,
              cache |-> CacheSet(cache, PRICES_TTL, slug, min_price, now)]

\* get_min_price after a cache miss, the request ending in o:
\* [exc, val, cache]
get_min_price_remote(cache, slug, now, o) ==
    LET r == get_min_price_try(o)
    IN  IF r.exc = ""
        THEN get_min_price_store(cache, slug, now, r.val)
        ELSE IF Catches(PriceExcept, r.exc)
        THEN [exc |-> "", val |-> PyNone, cache |-> cache]
        ELSE [exc |-> r.exc, val |-> PyNone, cache |-> cache]


(***************************************************************************)
(* The inputs: the chat sessions, the texts they send, and the ways an     *)
(* outbound request can end.                                               *)
(***************************************************************************)
Sessions == {"u1", "u2"}

Texts ==
    {<<"A">>, <<" ", "A">>, <<" ">>, <<"/start">>, <<"/cancel">>, <<"/foo">>}

Player(slug, displayName) ==
    JObj([slug |-> JStr(<<slug>>), displayName |-> JStr(displayName)])

\* the lists of players the remote API answers a search with
PlayerLists ==
    { <<>>,
      <<Player("s1", <<"/foo">>)>>,
      <<Player("s1", <<"/foo">>), Player("s3", <<"/foo">>)>>,
      <<Player("s2", <<"A">>), Player("s1", <<"/foo">>), Player("s3", <<"/foo">>),
        Player("s4", <<"A">>), Player("s5", <<"E">>), Player("s6", <<"F">>)>> }

SearchBody(allPlayers) ==
    JObj([data |-> JObj([football |-> JObj([allPlayers |-> allPlayers])])])

TransportFailures ==
    {NetFail("ConnectionError"), NetFail("Timeout"), NotJson(500), NotJson(200)}

\* a body whose shape is not the expected one: null at data, football,
\* allPlayers
SearchShapeFailures ==
    { Response(200, JObj([data |-> JNull])),
      Response(200, JObj([data |-> JObj([football |-> JNull])])),
      Response(200, SearchBody(JNull)) }

SearchOutcomes ==
    TransportFailures \cup SearchShapeFailures
    \cup {Response(200, SearchBody(JObj([nodes |-> JArr(l)]))) : l \in PlayerLists}
    \cup {Response(200, SearchBody(JObj([nodes |-> JNull]))), Response(200, EmptyDict)}

Card(price) == JObj([price |-> price])

PriceBody(player) ==
    JObj([data |-> JObj([football |-> JObj([player |-> player])])])

CardsBody(cards) == PriceBody(JObj([cards |-> JObj([nodes |-> cards])]))

\* null on the path to cards.nodes, or a card that is null
PriceShapeFailures ==
    { Response(200, JObj([data |-> JNull])),
      Response(200, JObj([data |-> JObj([football |-> JNull])])),
      Response(200, PriceBody(JObj([cards |-> JNull]))),
      Response(200, CardsBody(JNull)),
      Response(200, CardsBody(JArr(<<JNull>>))) }

\* a price float() does not take
PriceCoercionFailures ==
    { Response(200, CardsBody(JArr(<<Card(JStr(<<"abc">>))>>))),
      Response(200, CardsBody(JArr(<<Card(JArr(<<JNum(1)>>))>>))) }

CardLists ==
    { <<>>,
      <<Card(JStr(<<"1.5">>)), Card(JStr(<<"0.9">>)), Card(JStr(<<>>))>>,
      <<Card(JStr(<<"1.5">>))>>,
      <<Card(JStr(<<>>)), Card(JNull), EmptyDict>>,
      <<Card(JNum(0)), Card(JStr(<<" ", "1.5">>))>> }

PriceOutcomes ==
    TransportFailures \cup PriceShapeFailures \cup PriceCoercionFailures
    \cup {Response(200, CardsBody(JArr(l))) : l \in CardLists}
    \cup {Response(200, PriceBody(JNull)), Response(200, EmptyDict)}

\* self_ping's GET: 200, another status, or an exception
PingOutcomes == {NotJson(200), NotJson(500), NetFail("ConnectionError"), NetFail("Timeout")}

\* no request was made
NoRequest == NetFail("none")

(***************************************************************************)
(* The state.                                                              *)
(***************************************************************************)
VARIABLES
    now,            \* the clock, in seconds
    players_cache,  \* TTLCache(ttl = CACHE_TIME), keyed by name
    prices_cache,   \* TTLCache(ttl = 300), keyed by slug
    conv,           \* conv[s]: the conversation state of session s
    user_data,      \* user_data[s]: context.user_data of session s, a dict
    pc,             \* where the event loop is: idle, or blocked in a request
    h,              \* the update being handled, or the one just handled
    ping            \* the self_ping thread

vars == <<now, players_cache, prices_cache, conv, user_data, pc, h, ping>>

NoFrame ==
    [sess |-> "-", text |-> <<>>, before |-> ConversationHandler_END,
     cands |-> EmptyDict, handler |-> "-", log |-> <<>>, done |-> FALSE,
     ret |-> PyNone, escaped |-> "", name |-> <<>>, player |-> PyNone,
     callAt |-> 0, callStored |-> -1]

\* the part of the state a handler works on, as one record
St ==
    [pc |-> pc, h |-> h, conv |-> conv, user_data |-> user_data,
     players_cache |-> players_cache, prices_cache |-> prices_cache]

Apply(m) ==
    /\ pc' = m.pc
    /\ h' = m.h
    /\ conv' = m.conv
    /\ user_data' = m.user_data
    /\ players_cache' = m.players_cache
    /\ prices_cache' = m.prices_cache

Ev(k, v) == [k |-> k, v |-> v]

Log(m, ev) == [m EXCEPT !.h.log = Append(@, ev)]

\* a call of search_players ("search") or get_min_price ("price"): its
\* argument, when it was made, whether the cache served it, when the item
\* the cache held under the key was stored, how the request ended, and what
\* the call raised or returned
CallEv(k, key, at, hit, stored, out, exc, val) ==
    Ev(k, [key |-> key, at |-> at, hit |-> hit, stored |-> stored,
           out |-> out, exc |-> exc, val |-> val])

\* the callback returned ret: the ConversationHandler moves the session to
\* the state returned, and leaves it where it is on None
Return(m, ret) ==
    [m EXCEPT !.pc = "idle", !.h.done = TRUE, !.h.ret = ret,
              !.conv[m.h.sess] = IF ret = PyNone THEN @ ELSE ret.v]

\* the callback raised e: the exception reaches the Application, the
\* session stays in its state
Escape(m, e) == [m EXCEPT !.pc = "idle", !.h.done = TRUE, !.h.escaped = e]

\* await update.message.reply_text(...): the message is sent, or the chat
\* transport raises NetworkError
reply_text(m, kind, data, sent) ==
    IF sent THEN Log(m, Ev(kind, data)) ELSE Log(m, Ev("reply_failed", kind))

\* await update.message.reply_text(...); return ret
ReplyAndReturn(m, kind, data, sent, ret) ==
    IF sent THEN Return(reply_text(m, kind, data, sent), ret)
    ELSE Escape(reply_text(m, kind, data, sent), "NetworkError")

(***************************************************************************)
(* handle_player_selection and the price resolution.                       *)
(***************************************************************************)
END == JNum(ConversationHandler_END)

\* the body of the try block once get_min_price(player["slug"]) returned or
\* raised mp, and the except clause.  tg[i] says whether the i-th reply of
\* this step is sent.
price_reply(m, player, mp, tg) ==
    LET name == Subscript(player, "displayName")
        attempted == mp.exc = "" /\ name.exc = ""
        kind == IF mp.val = PyNone THEN "reply:no_cards" ELSE "reply:price"
        m1 == IF attempted
              THEN reply_text(m, kind, <<name.val, mp.val>>, tg[1])
              ELSE m
        raised == ~attempted \/ ~tg[1]
        g == IF attempted THEN tg[2] ELSE tg[1]
    IN  IF ~raised THEN Return(m1, END)
        ELSE ReplyAndReturn(m1, "reply:fetch_error", <<>>, g, END)

\* try: min_price = get_min_price(player["slug"]), up to the request
price_start(m, player, t, tg) ==
    LET slug == Subscript(player, "slug")
        cached == CacheGet(m.prices_cache, slug.val, t)
    IN  IF slug.exc # "" THEN price_reply(m, player, slug, tg)
        ELSE IF PriceHit(cached)
        THEN price_reply(
                 Log(m, CallEv("price", slug.val, t, TRUE,
                               StoredAt(m.prices_cache, slug.val), NoRequest,
                               "", cached)),
                 player, Ok(cached), tg)
        ELSE [m EXCEPT !.pc = "price_wait", !.h.player = player,
                       !.h.callAt = t,
                       !.h.callStored = StoredAt(m.prices_cache, slug.val)]

\* next((p for p in players if p["displayName"] == selected_name), None),
\* from i on
RECURSIVE FirstMatch(_, _, _)
FirstMatch(players, selected_name, i) ==
    IF i > Len(players) THEN Ok(PyNone)
    ELSE Bind(Subscript(players[i], "displayName"), LAMBDA d :
         IF d = JStr(selected_name) THEN Ok(players[i])
         ELSE FirstMatch(players, selected_name, i + 1))

\* if not player: look selected_name up in context.user_data["players"]
select_player(m, player) ==
    IF Truthy(player) THEN Ok(player)
    ELSE Bind(DictGet(m.user_data[m.h.sess], "players", EmptyList), LAMBDA ps :
         Bind(Iter(ps), LAMBDA items :
         FirstMatch(items, m.h.text, 1)))

handle_player_selection(m, player, t, tg) ==
    LET sel == select_player(m, player)
    IN  IF sel.exc # "" THEN Escape(m, sel.exc)
        ELSE IF ~Truthy(sel.val)
        THEN ReplyAndReturn(m, "reply:selection_error", <<>>, tg[1], END)
        ELSE price_start(m, sel.val, t, tg)

(***************************************************************************)
(* handle_text.                                                            *)
(***************************************************************************)
MENU_SIZE == 5

\* [[p["displayName"]] for p in players[:5]], from i on
RECURSIVE Keyboard(_, _)
Keyboard(players, i) ==
    IF i > Len(players) \/ i > MENU_SIZE THEN Ok(<<>>)
    ELSE Bind(Subscript(players[i], "displayName"), LAMBDA d :
         Bind(Keyboard(players, i + 1), LAMBDA rest :
         Ok(<<d>> \o rest)))

\* context.user_data["players"] = players
StoreCandidates(m, players) ==
    [m EXCEPT !.user_data[m.h.sess] =
                  JObj([key \in DOMAIN @.v \cup {"players"} |->
                           IF key = "players" THEN players ELSE @.v[key]])]

\* more than one player: the menu, the stored candidates, SELECT_PLAYER
present_menu(m, players, tg) ==
    LET keyboard == Keyboard(players.v, 1)
    IN  IF keyboard.exc # "" THEN Escape(m, keyboard.exc)
        ELSE IF ~tg[1]
        THEN Escape(reply_text(m, "reply:menu", keyboard.val, FALSE), "NetworkError")
        ELSE Return(StoreCandidates(reply_text(m, "reply:menu", keyboard.val, TRUE),
                                    players),
                    JNum(SELECT_PLAYER))

\* handle_text presenting the menu for a single player too
after_search_menu_for_one(m, sr, t, tg) ==
    IF sr.exc # "" THEN Escape(m, sr.exc)
    ELSE IF ~Truthy(sr.val)
    THEN ReplyAndReturn(m, "reply:not_found", <<>>, tg[1], END)
    ELSE IF sr.val.k # "arr" THEN Escape(m, "TypeError")
    ELSE present_menu(m, sr.val, tg)

\* handle_text once search_players(player_name) returned or raised sr
after_search(m, sr, t, tg) ==
    IF sr.exc # "" THEN Escape(m, sr.exc)
    ELSE IF ~Truthy(sr.val)
    THEN ReplyAndReturn(m, "reply:not_found", <<>>, tg[1], END)
    ELSE IF sr.val.k # "arr" THEN Escape(m, "TypeError")  \* players[:5], players[0]
    ELSE IF Len(sr.val.v) > 1 THEN present_menu(m, sr.val, tg)
    ELSE handle_player_selection(m, sr.val.v[1], t, tg)

\* handle_text testing the text as received, not stripped
handle_text_unstripped(m, t, tg) ==
    LET player_name == strip(m.h.text)
        cached == CacheGet(m.players_cache, player_name, t)
    IN  IF m.h.text = <<>>
        THEN ReplyAndReturn(m, "reply:validation", <<>>, tg[1], END)
        ELSE IF PlayersHit(cached)
        THEN after_search(
                 Log(m, CallEv("search", player_name, t, TRUE,
                               StoredAt(m.players_cache, player_name),
                               NoRequest, "", cached)),
                 Ok(cached), t, tg)
        ELSE [m EXCEPT !.pc = "search_wait", !.h.name = player_name,
                       !.h.callAt = t,
                       !.h.callStored = StoredAt(m.players_cache, player_name)]

\* handle_text up to the request of search_players
handle_text(m, t, tg) ==
    LET player_name == strip(m.h.text)
        cached == CacheGet(m.players_cache, player_name, t)
    IN  IF player_name = <<>>
        THEN ReplyAndReturn(m, "reply:validation", <<>>, tg[1], END)
        ELSE IF PlayersHit(cached)
        THEN after_search(
                 Log(m, CallEv("search", player_name, t, TRUE,
                               StoredAt(m.players_cache, player_name),
                               NoRequest, "", cached)),
                 Ok(cached), t, tg)
        ELSE [m EXCEPT !.pc = "search_wait", !.h.name = player_name,
                       !.h.callAt = t,
                       !.h.callStored = StoredAt(m.players_cache, player_name)]

(***************************************************************************)
(* start, cancel, and the handlers main() registers.                       *)
(***************************************************************************)
\* start as a callback of the conversation that ends it
start_ends_conversation(m, tg) ==
    ReplyAndReturn(m, "reply:welcome", <<>>, tg[1], END)

start(m, tg) == ReplyAndReturn(m, "reply:welcome", <<>>, tg[1], PyNone)

cancel(m, tg) == ReplyAndReturn(m, "reply:cancelled", <<>>, tg[1], END)

\* filters.TEXT: the message has a text (a command has one too)
FilterText(text) == text # <<>>

\* filters.COMMAND: the text starts with a bot command
FilterCommand(text) == text # <<>> /\ Head(text) \in Commands

\* CommandHandler(name, ...)
CommandMatches(name, text) == text # <<>> /\ Head(text) = name

allow_reentry == TRUE

\* The handler an update with this text goes to in a session whose
\* conversation state is state.  The Application takes the first of its
\* handlers that accepts the update: CommandHandler("start"), then the
\* ConversationHandler, which tries its entry points (when the session has
\* no state, or allow_reentry), then the handlers of the state, then the
\* fallbacks, the two last only when the session has a state.
Route(state, text) ==
    IF CommandMatches("/start", text) THEN "start"
    ELSE IF (state = ConversationHandler_END \/ allow_reentry)
            /\ FilterText(text) /\ ~FilterCommand(text)
    THEN "handle_text"
    ELSE IF state = ConversationHandler_END THEN "none"
    ELSE IF state = SELECT_PLAYER /\ FilterText(text)
    THEN "handle_player_selection"
    ELSE IF CommandMatches("/cancel", text) THEN "cancel"
    ELSE "none"

NewFrame(s, text) ==
    [NoFrame EXCEPT !.sess = s, !.text = text, !.before = conv[s],
                    !.cands = user_data[s], !.handler = Route(conv[s], text)]

(***************************************************************************)
(* self_ping, the keep-alive thread.                                       *)
(***************************************************************************)
\* self_ping at the top of its loop, about to make the GET; prev is the
\* level of the log line of the iteration before, "-" in the first one
Pinging(prev) ==
    [pc |-> "get", logged |-> "-", wakeAt |-> 0, out |-> NoRequest,
     prev |-> prev]

\* the try block of self_ping: the GET and the level of the log line
self_ping_try(o) ==
    Bind(Post(o), LAMBDA response :
    Ok(IF o.status = 200 THEN "info" ELSE "warning"))

\* an iteration of self_ping whose except clause catches nothing: the
\* exception ends the thread
self_ping_uncaught(o, t) ==
    LET r == self_ping_try(o)
    IN  IF r.exc = ""
        THEN [pc |-> "sleep", logged |-> r.val, wakeAt |-> t + PING_INTERVAL,
              out |-> o, prev |-> "-"]
        ELSE [pc |-> "dead", logged |-> "-", wakeAt |-> 0, out |-> o,
              prev |-> "-"]

\* an iteration of self_ping up to time.sleep: the try block, and
\* `except Exception`, which catches whatever the GET raises
self_ping_iteration(o, t) ==
    LET r == self_ping_try(o)
    IN  [pc |-> "sleep", logged |-> IF r.exc = "" THEN r.val ELSE "error",
         wakeAt |-> t + PING_INTERVAL, out |-> o, prev |-> "-"]

(***************************************************************************)
(* The actions.                                                            *)
(***************************************************************************)
\* tg[i]: is the i-th reply of the step sent?  A second reply is only tried
\* after a first one failed.
Replies == {<<TRUE, TRUE>>, <<FALSE, TRUE>>, <<FALSE, FALSE>>}

Init ==
    /\ now = 0
    /\ players_cache = EmptyCache
    /\ prices_cache = EmptyCache
    /\ conv = [s \in Sessions |-> ConversationHandler_END]
    /\ user_data = [s \in Sessions |-> EmptyDict]
    /\ pc = "idle"
    /\ h = NoFrame
    /\ ping = Pinging("-")

\* The event loop takes the next update, of session s with this text, and
\* runs its handler up to the first outbound request, or to its end.  The
\* requests are synchronous calls made on the event loop: it takes no
\* other update until the handler is through.
ProcessUpdate(s, text, tg) ==
    /\ pc = "idle"
    /\ LET m == [St EXCEPT !.h = NewFrame(s, text)]
           handler == m.h.handler
       IN  Apply(CASE handler = "start" -> start(m, tg)
                   [] handler = "cancel" -> cancel(m, tg)
                   [] handler = "handle_text" -> handle_text(m, now, tg)
                   [] handler = "handle_player_selection" ->
                          handle_player_selection(m, PyNone, now, tg)
                   [] OTHER -> [m EXCEPT !.h.done = TRUE])
    /\ UNCHANGED <<now, ping>>

\* The search request ends in o: the rest of search_players, then the rest
\* of handle_text.
SearchResponse(o, tg) ==
    /\ pc = "search_wait"
    /\ LET r == search_players_remote(players_cache, h.name, now, o)
           m == Log([St EXCEPT !.players_cache = r.cache],
                    CallEv("search", h.name, h.callAt, FALSE, h.callStored, o,
                           r.exc, r.val))
       IN  Apply(after_search(m, [exc |-> r.exc, val |-> r.val], now, tg))
    /\ UNCHANGED <<now, ping>>

\* The price request ends in o: the rest of get_min_price, then the rest of
\* handle_player_selection.
PriceResponse(o, tg) ==
    /\ pc = "price_wait"
    /\ LET slug == h.player.v["slug"]
           r == get_min_price_remote(prices_cache, slug, now, o)
           m == Log([St EXCEPT !.prices_cache = r.cache],
                    CallEv("price", slug, h.callAt, FALSE, h.callStored, o,
                           r.exc, r.val))
       IN  Apply(price_reply(m, h.player, [exc |-> r.exc, val |-> r.val], tg))
    /\ UNCHANGED <<now, ping>>

\* h describes the update in hand or the one the last step finished
Forget == h' = IF h.done THEN NoFrame ELSE h

Tick(maxTime) ==
    /\ now + TickStep <= maxTime
    /\ now' = now + TickStep
    /\ Forget
    /\ UNCHANGED <<players_cache, prices_cache, conv, user_data, pc, ping>>

\* self_ping: requests.get(PING_URL, timeout=10), the log line, and the
\* start of time.sleep(PING_INTERVAL)
PingGet(o) ==
    /\ ping.pc = "get"
    /\ ping' = self_ping_iteration(o, now)
    /\ Forget
    /\ UNCHANGED <<now, players_cache, prices_cache, conv, user_data, pc>>

\* self_ping: time.sleep(PING_INTERVAL) returns, the interval over, and
\* the loop starts its next iteration
PingWake ==
    /\ ping.pc = "sleep"
    /\ now >= ping.wakeAt
    /\ ping' = Pinging(ping.logged)
    /\ Forget
    /\ UNCHANGED <<now, players_cache, prices_cache, conv, user_data, pc>>

\* the steps of the program, its inputs drawn from the sets given
NextOver(sessions, texts, replies, searches, prices, pings, maxTime) ==
    \/ \E s \in sessions, text \in texts, tg \in replies : ProcessUpdate(s, text, tg)
    \/ \E o \in searches, tg \in replies : SearchResponse(o, tg)
    \/ \E o \in prices, tg \in replies : PriceResponse(o, tg)
    \/ Tick(maxTime)
    \/ \E o \in pings : PingGet(o)
    \/ PingWake

(***************************************************************************)
(* Spec: the dialogs of two sessions, every text, replies that may fail,   *)
(* and a few endings of each request.                                      *)
(***************************************************************************)
DialogMaxTime == 300

DialogSearches ==
    {NetFail("Timeout"), Response(200, JObj([data |-> JNull]))}
    \cup {Response(200, SearchBody(JObj([nodes |-> JArr(l)]))) : l \in PlayerLists}

DialogPrices ==
    { NetFail("Timeout"), Response(200, JObj([data |-> JNull])),
      Response(200, CardsBody(JArr(<<>>))),
      Response(200, CardsBody(JArr(<<Card(JStr(<<"1.5">>))>>))) }

DialogPings == {NetFail("Timeout")}

Next ==
    NextOver(Sessions, Texts, Replies, DialogSearches, DialogPrices,
             DialogPings, DialogMaxTime)

Spec == Init /\ [][Next]_vars

(***************************************************************************)
(* ClientSpec: the two cached operations in one session whose replies are  *)
(* all sent, with every ending of each request and the clock running past  *)
(* both TTLs.                                                              *)
(***************************************************************************)
ClientNext ==
    NextOver({"u1"}, Texts, {<<TRUE, TRUE>>}, SearchOutcomes, PriceOutcomes,
             {NotJson(200)}, MaxTime)

ClientSpec == Init /\ [][ClientNext]_vars

(***************************************************************************)
(* What the properties read off h.                                         *)
(***************************************************************************)
ReplyKinds ==
    {"reply:welcome", "reply:cancelled", "reply:validation", "reply:not_found",
     "reply:menu", "reply:selection_error", "reply:no_cards", "reply:price",
     "reply:fetch_error"}

\* the positions in the log of the events of kind k
Events(k) == {i \in 1..Len(h.log) : h.log[i].k = k}

\* the positions of the replies sent
Sent == {i \in 1..Len(h.log) : h.log[i].k \in ReplyKinds}

\* every reply tried while handling the update was sent: the chat
\* transport did not fail
TransportUp == Events("reply_failed") = {}

\* the responses that carry a list of players
SearchListResponses ==
    {Response(200, SearchBody(JObj([nodes |-> JArr(l)]))) : l \in PlayerLists}

(***************************************************************************)
(* C1: search_players never raises to its caller: whenever the request     *)
(* ends in a connection error, a timeout, a non-2xx status, a body that is *)
(* not JSON or a body with null at data / football / allPlayers, the call  *)
(* returns the empty list.                                                 *)
(***************************************************************************)
C1_SearchNeverRaises ==
    \A i \in Events("search") :
        LET e == h.log[i].v
        IN  /\ e.exc = ""
            /\ (~e.hit /\ e.out \in TransportFailures \cup SearchShapeFailures)
                   => e.val = EmptyList

\* the free texts, /start and /cancel
ClaimedTexts ==
    {t \in Texts : ~FilterCommand(t) \/ Head(t) \in {"/start", "/cancel"}}

(***************************************************************************)
(* C2: handling a free text, /start or /cancel, in any conversation state  *)
(* and whatever the requests end in, ends with at least one reply sent and *)
(* no exception escaping (the chat transport itself working).              *)
(***************************************************************************)
C2_AlwaysReplied ==
    (h.done /\ h.text \in ClaimedTexts /\ TransportUp)
        => (Sent # {} /\ h.escaped = "")

(***************************************************************************)
(* C3: once a call search_players(x) got a response with a list of         *)
(* players, a second call search_players(x) within CACHE_TIME of the first *)
(* is a cache hit (no second request) and returns the same list.           *)
(***************************************************************************)
C3_SecondCallIsHit ==
    \A i \in Events("search") :
        LET e == h.log[i].v
            cached == CacheGet(players_cache, e.key, now)
        IN  (~e.hit /\ e.out \in SearchListResponses /\ now - e.at < CACHE_TIME)
                => (PlayersHit(cached) /\ cached = e.val)

\* the calls of kind k in the log, against the TTL of their cache
FreshCalls(k, ttl) ==
    \A i \in Events(k) :
        LET e == h.log[i].v
        IN  /\ e.hit => (e.stored >= 0 /\ e.at - e.stored < ttl)
            /\ (e.stored >= 0 /\ e.at - e.stored >= ttl)
                   => (~e.hit /\ e.out # NoRequest)

(***************************************************************************)
(* C4: a call of search_players or get_min_price the cache serves is       *)
(* served an item stored less than the TTL ago (CACHE_TIME for players,    *)
(* 300 s for prices), and a call made when the TTL has elapsed since the   *)
(* item under its key was stored is not served by the cache: it issues a   *)
(* request.                                                                *)
(***************************************************************************)
C4_NoStaleEntry ==
    /\ FreshCalls("search", CACHE_TIME)
    /\ FreshCalls("price", PRICES_TTL)

\* a call found an item past its TTL under its key and issued a request,
\* and a call was served an item stored earlier
C4_Witness ==
    /\ \E i \in Events("price") :
           /\ h.log[i].v.stored >= 0
           /\ h.log[i].v.at - h.log[i].v.stored >= PRICES_TTL
           /\ ~h.log[i].v.hit
    /\ \E i \in Events("search") :
           /\ h.log[i].v.hit
           /\ h.log[i].v.at > h.log[i].v.stored

\* the display names of a list of players
RECURSIVE DisplayNames(_)
DisplayNames(players) ==
    IF players = <<>> THEN <<>>
    ELSE <<Head(players).v["displayName"]>> \o DisplayNames(Tail(players))

(***************************************************************************)
(* C5: when the search gives two players or more, the menu has at most 5   *)
(* entries and the candidates stored in the session are the players the    *)
(* menu was built from.                                                    *)
(***************************************************************************)
C5_MenuIsStored ==
    \A i \in Events("reply:menu") :
        (h.done /\ conv[h.sess] = SELECT_PLAYER)
            => /\ Len(h.log[i].v) <= MENU_SIZE
               /\ DisplayNames(user_data[h.sess].v["players"].v) = h.log[i].v

\* the stored candidates the text of the update names
Named ==
    IF "players" \in DOMAIN h.cands.v
    THEN {j \in 1..Len(h.cands.v["players"].v) :
             h.cands.v["players"].v[j].v["displayName"] = JStr(h.text)}
    ELSE {}

(***************************************************************************)
(* C6: in AwaitingSelection, a free text equal to the display name of a    *)
(* stored candidate is looked up among the stored candidates: no player    *)
(* search is made, get_min_price is called with that candidate's slug, and *)
(* the session is back in AwaitingName.                                    *)
(***************************************************************************)
C6_SelectionPricesCandidate ==
    (/\ h.done
     /\ h.before = SELECT_PLAYER
     /\ ~FilterCommand(h.text)
     /\ Named # {}
     /\ TransportUp)
        => /\ Events("search") = {}
           /\ \E i \in Events("price"), j \in Named :
                  h.log[i].v.key = h.cands.v["players"].v[j].v["slug"]
           /\ conv[h.sess] = ConversationHandler_END

(***************************************************************************)
(* C7: /cancel, in AwaitingName or AwaitingSelection, gets the reply       *)
(* "cancelled" and leaves the session in AwaitingName.                     *)
(***************************************************************************)
C7_CancelReplies ==
    (h.done /\ h.text = <<"/cancel">> /\ TransportUp)
        => /\ Events("reply:cancelled") # {}
           /\ conv[h.sess] = ConversationHandler_END

(***************************************************************************)
(* C8: while the handler of one session waits for its search or price      *)
(* request, an update of any other session can be handled, and the         *)
(* keep-alive loop can take its next step.                                 *)
(***************************************************************************)
C8_NoStall ==
    pc \in {"search_wait", "price_wait"}
        => /\ \A s \in Sessions \ {h.sess} :
                  ENABLED (\E text \in Texts, tg \in Replies :
                               ProcessUpdate(s, text, tg))
           /\ ping.pc = "get" => ENABLED (\E o \in DialogPings : PingGet(o))
           /\ (ping.pc = "sleep" /\ now >= ping.wakeAt) => ENABLED PingWake

(***************************************************************************)
(* C9: get_min_price never raises to its caller: whenever the request ends *)
(* in a transport error, a timeout, a non-2xx status, a body with null on  *)
(* the path to cards.nodes or a price float() does not take, the call      *)
(* returns None.                                                           *)
(***************************************************************************)
C9_PriceNeverRaises ==
    \A i \in Events("price") :
        LET e == h.log[i].v
        IN  /\ e.exc = ""
            /\ (~e.hit /\ e.out \in TransportFailures \cup PriceShapeFailures
                                     \cup PriceCoercionFailures)
                   => e.val = PyNone

\* the call of get_min_price that ended in the step, if one did
PriceCallEnded ==
    /\ pc = "price_wait"
    /\ pc' # "price_wait"

LastPrice == h'.log[CHOOSE i \in 1..Len(h'.log) :
                        /\ h'.log[i].k = "price"
                        /\ \A j \in 1..Len(h'.log) : h'.log[j].k = "price" => j <= i].v

(***************************************************************************)
(* C10: a step in which get_min_price ends without a number (None, or an   *)
(* exception) leaves prices_cache as it was, and after it the cache still  *)
(* does not serve the slug; a step that changes prices_cache is one in     *)
(* which get_min_price returned the number now stored under the slug.      *)
(***************************************************************************)
C10_CacheOnlyNumbers ==
    [][/\ (PriceCallEnded /\ (LastPrice.val = PyNone \/ LastPrice.exc # ""))
           => /\ prices_cache' = prices_cache
              /\ ~PriceHit(CacheGet(prices_cache', LastPrice.key, now'))
       /\ prices_cache' # prices_cache
           => /\ PriceCallEnded
              /\ LastPrice.exc = ""
              /\ LastPrice.val.k = "num"
              /\ CacheGet(prices_cache', LastPrice.key, now') = LastPrice.val
      ]_vars

\* get_min_price got a response with no priced card and returned None
C10_Witness ==
    \E i \in Events("price") :
        /\ ~h.log[i].v.hit
        /\ h.log[i].v.out = Response(200, CardsBody(JArr(<<>>)))
        /\ h.log[i].v.exc = ""
        /\ h.log[i].v.val = PyNone

\* the responses that carry a list of cards
CardListResponses == {Response(200, CardsBody(JArr(l))) : l \in CardLists}

\* the cards of a list that have a price: the field is there and is
\* neither null nor the empty string
PricedCards(cards) ==
    {i \in 1..Len(cards) :
        /\ cards[i].k = "obj"
        /\ "price" \in DOMAIN cards[i].v
        /\ cards[i].v["price"].k # "null"
        /\ ~(cards[i].v["price"].k = "str" /\ cards[i].v["price"].v = <<>>)}

\* the number a price stands for
PriceValue(p) == IF p.k = "num" THEN p.v ELSE FloatTable[strip(p.v)]

(***************************************************************************)
(* C11: on a cache miss answered with a list of cards, get_min_price       *)
(* returns None exactly when no card of the list has a price (a price that *)
(* is there and not empty), and otherwise the least of the prices of all   *)
(* the cards that have one: only a card with a missing or empty price is   *)
(* left out.                                                               *)
(***************************************************************************)
C11_MinOfPriced ==
    \A i \in Events("price"), l \in CardLists :
        LET e == h.log[i].v
            values == {PriceValue(l[j].v["price"]) : j \in PricedCards(l)}
        IN  (~e.hit /\ e.out = Response(200, CardsBody(JArr(l))))
                => /\ e.exc = ""
                   /\ (e.val = PyNone) <=> (values = {})
                   /\ values # {}
                          => /\ e.val.k = "num"
                             /\ e.val.v \in values
                             /\ \A x \in values : e.val.v <= x

\* the update went through the price resolution: get_min_price was called
PriceResolved == h.done /\ Events("price") # {}

\* an exception was raised inside the try block of the price resolution:
\* by get_min_price, or by the reply
RaisedInTry ==
    \/ \E i \in Events("price") : h.log[i].v.exc # ""
    \/ \E i \in Events("reply_failed") :
           h.log[i].v \in {"reply:price", "reply:no_cards"}

(***************************************************************************)
(* C12: the price resolution is terminal whatever happens in it: with a    *)
(* price, without one, or with an exception raised by get_min_price or by  *)
(* the sending of the reply, no exception reaches the chat transport, the  *)
(* session ends in AwaitingName, and an exception raised on the way is     *)
(* reported with the "fetch error" reply.                                  *)
(***************************************************************************)
C12_PriceResolutionTerminal ==
    PriceResolved
        => /\ h.escaped = ""
           /\ conv[h.sess] = ConversationHandler_END
           /\ RaisedInTry => Events("reply:fetch_error") # {}

\* the update was a text with a name in it, taken by handle_text in a
\* session in AwaitingName, and every reply tried was sent
NameInAwaitingName ==
    /\ h.done
    /\ h.before = ConversationHandler_END
    /\ h.handler = "handle_text"
    /\ strip(h.text) # <<>>
    /\ TransportUp

\* how many players a call of search_players returned; -1 when it raised
Found(e) ==
    IF e.exc # "" THEN -1
    ELSE IF e.val.k = "arr" THEN Len(e.val.v)
    ELSE 0

(***************************************************************************)
(* C13: after a text with a name in AwaitingName, the session is in        *)
(* AwaitingSelection if and only if the search returned two players or     *)
(* more; with no player the reply is "not found" and the session is in     *)
(* AwaitingName; with exactly one player get_min_price is called for that  *)
(* player and no menu is sent.                                             *)
(***************************************************************************)
C13_SelectionIffSeveral ==
    NameInAwaitingName
        => /\ Events("search") # {}
           /\ \A i \in Events("search") :
                  LET e == h.log[i].v
                  IN  /\ (conv[h.sess] = SELECT_PLAYER) <=> (Found(e) >= 2)
                      /\ Found(e) = 0
                             => /\ Events("reply:not_found") # {}
                                /\ conv[h.sess] = ConversationHandler_END
                      /\ Found(e) = 1
                             => /\ Events("reply:menu") = {}
                                /\ \E j \in Events("price") :
                                       h.log[j].v.key = e.val.v[1].v["slug"]

\* a search in AwaitingName returned several players and the session is in
\* AwaitingSelection
C13_Witness ==
    /\ NameInAwaitingName
    /\ conv[h.sess] = SELECT_PLAYER
    /\ \E i \in Events("search") : Found(h.log[i].v) >= 2
    /\ Events("reply:menu") # {}

(***************************************************************************)
(* C14: in AwaitingSelection, a text (other than /start) that is the       *)
(* display name of no stored candidate gets the "selection error" reply,   *)
(* no call of get_min_price is made, and the session is back in            *)
(* AwaitingName.                                                           *)
(***************************************************************************)
C14_MismatchIsSelectionError ==
    (/\ h.done
     /\ h.before = SELECT_PLAYER
     /\ ~CommandMatches("/start", h.text)
     /\ Named = {}
     /\ TransportUp)
        => /\ Events("reply:selection_error") # {}
           /\ Events("price") = {}
           /\ conv[h.sess] = ConversationHandler_END

\* the update in hand is a text of white space only, received in
\* AwaitingName
BlankInAwaitingName ==
    /\ h.sess \in Sessions
    /\ h.before = ConversationHandler_END
    /\ h.text # <<>>
    /\ strip(h.text) = <<>>

(***************************************************************************)
(* C15: a text of white space only received in AwaitingName is answered    *)
(* with the "validation" reply (and with nothing else), no call of         *)
(* search_players is made, cached or remote, and the session stays in      *)
(* AwaitingName.                                                           *)
(***************************************************************************)
C15_BlankIsValidationError ==
    BlankInAwaitingName
        => /\ h.done
           /\ pc = "idle"
           /\ Events("search") = {}
           /\ conv[h.sess] = ConversationHandler_END
           /\ Sent \subseteq Events("reply:validation")
           /\ TransportUp => Events("reply:validation") # {}

\* a text of white space only was answered with the "validation" reply
C15_Witness ==
    /\ BlankInAwaitingName
    /\ h.handler = "handle_text"
    /\ Events("reply:validation") # {}

\* the step handles a /start update
StartHandled ==
    /\ pc = "idle"
    /\ h' # h
    /\ h'.done
    /\ CommandMatches("/start", h'.text)

(***************************************************************************)
(* C16: a step that handles /start, whatever the conversation state of the *)
(* session, runs start and no other handler: it sends the welcome message  *)
(* (and nothing else), calls neither search_players nor get_min_price, and *)
(* leaves the conversation states, the stored candidates and both caches   *)
(* as they were.                                                           *)
(***************************************************************************)
C16_StartChangesNothing ==
    [][StartHandled
           => /\ h'.handler = "start"
              /\ conv' = conv
              /\ user_data' = user_data
              /\ players_cache' = players_cache
              /\ prices_cache' = prices_cache
              /\ \A i \in 1..Len(h'.log) :
                     h'.log[i].k \in {"reply:welcome", "reply_failed"}
              /\ (\A i \in 1..Len(h'.log) : h'.log[i].k # "reply_failed")
                     => \E i \in 1..Len(h'.log) : h'.log[i].k = "reply:welcome"
      ]_vars

\* /start was answered with the welcome message in a session that was, and
\* is, in AwaitingSelection, with an item in the players cache
C16_Witness ==
    /\ h.done
    /\ CommandMatches("/start", h.text)
    /\ h.before = SELECT_PLAYER
    /\ conv[h.sess] = SELECT_PLAYER
    /\ "players" \in DOMAIN user_data[h.sess].v
    /\ Events("reply:welcome") # {}
    /\ players_cache # EmptyCache

(***************************************************************************)
(* PingSpec: the keep-alive thread with every ending of its GET, the clock *)
(* running over several intervals, and one session with a short dialog.    *)
(* The thread is scheduled and time passes: the steps of self_ping and the *)
(* clock are weakly fair.                                                  *)
(***************************************************************************)
PingMaxTime == 900

PingSearches ==
    {Response(200, SearchBody(JObj([nodes |-> JArr(<<Player("s1", <<"/foo">>)>>)])))}

PingPrices == {Response(200, CardsBody(JArr(<<Card(JStr(<<"1.5">>))>>)))}

PingNext ==
    NextOver({"u1"}, {<<"A">>, <<"/start">>}, {<<TRUE, TRUE>>}, PingSearches,
             PingPrices, PingOutcomes, PingMaxTime)

PingSpec ==
    /\ Init
    /\ [][PingNext]_vars
    /\ WF_vars(Tick(PingMaxTime))
    /\ WF_vars(PingWake)
    /\ WF_vars(\E o \in PingOutcomes : PingGet(o))

\* a ping that failed: an exception of the GET, or a status that is not 2xx
PingFailed(o) == o.net # "ok" \/ o.status < 200 \/ o.status >= 300

\* the last value of the clock under a bound
ClockEnd(maxTime) == (maxTime \div TickStep) * TickStep

\* the step is the one GET of an iteration, followed by the wait
PingGetStep ==
    /\ ping.pc = "get"
    /\ ping'.pc = "sleep"
    /\ ping'.out \in PingOutcomes
    /\ ping'.wakeAt = now + PING_INTERVAL

\* the step ends a wait of one interval at least and starts an iteration
PingWakeStep ==
    /\ ping.pc = "sleep"
    /\ now >= ping.wakeAt
    /\ ping'.pc = "get"
    /\ ping'.out = NoRequest

(***************************************************************************)
(* C17: self_ping never ends: the thread is always about to make its GET   *)
(* or waiting, and can take its next step (the GET at once, the next       *)
(* iteration once the interval is over); every step of the thread is the   *)
(* one GET of an iteration, after which it waits PING_INTERVAL, or the end *)
(* of that wait; a ping that failed (an exception, or a status that is not *)
(* 2xx) is logged as a warning or an error and leads to a further          *)
(* iteration.                                                              *)
(***************************************************************************)
C17_LoopNeverStops ==
    /\ [](/\ ping.pc \in {"get", "sleep"}
          /\ ping.pc = "get" => ENABLED (\E o \in PingOutcomes : PingGet(o))
          /\ (ping.pc = "sleep" /\ now >= ping.wakeAt) => ENABLED PingWake
          /\ (ping.pc = "sleep" /\ PingFailed(ping.out))
                 => ping.logged \in {"warning", "error"})
    /\ [][ping' # ping => (PingGetStep \/ PingWakeStep)]_vars
    /\ (/\ ping.pc = "sleep"
        /\ PingFailed(ping.out)
        /\ ping.wakeAt <= ClockEnd(PingMaxTime))
           ~> (ping.pc = "get" /\ ping.prev \in {"warning", "error"})

\* a ping failed, the interval went by, and the loop is in its next
\* iteration, about to make the GET
C17_Witness ==
    /\ ping.pc = "get"
    /\ ping.prev = "error"
    /\ now >= PING_INTERVAL

\* the candidates stored in session s, the empty list when there are none
Candidates(s) ==
    IF "players" \in DOMAIN user_data[s].v THEN user_data[s].v["players"]
    ELSE EmptyList

(***************************************************************************)
(* C18: a session in AwaitingSelection has two stored candidates or more,  *)
(* and they are the list the most recent search_players call made for the  *)
(* session returned; names are matched against the stored candidates only  *)
(* in AwaitingSelection, so never against the list of a conversation that  *)
(* has ended.                                                              *)
(***************************************************************************)
C18_CandidatesAreLatestSearch ==
    /\ \A s \in Sessions :
           conv[s] = SELECT_PLAYER
               => (Candidates(s).k = "arr" /\ Len(Candidates(s).v) >= 2)
    /\ (h.done /\ h.sess \in Sessions /\ conv[h.sess] = SELECT_PLAYER)
           => \A i \in Events("search") :
                  /\ h.log[i].v.exc = ""
                  /\ h.log[i].v.val = Candidates(h.sess)
    /\ h.handler = "handle_player_selection" => h.before = SELECT_PLAYER

\* the call of search_players that ended in the step
LastSearch ==
    h'.log[CHOOSE i \in 1..Len(h'.log) :
               /\ h'.log[i].k = "search"
               /\ \A j \in 1..Len(h'.log) : h'.log[j].k = "search" => j <= i].v

\* the step takes a text to handle_text while the players cache holds a
\* live empty list under the name in it
CallOnEmptyItem ==
    /\ pc = "idle"
    /\ h' # h
    /\ h'.handler = "handle_text"
    /\ CacheGet(players_cache, strip(h'.text), now) = EmptyList

(***************************************************************************)
(* C19: a call of search_players that issues no request returns a list     *)
(* that is not empty, held by the cache under the key of the call and      *)
(* stored less than CACHE_TIME before; the players cache is only written   *)
(* by a call whose request was answered (2xx, JSON) and that returned the  *)
(* value stored; and a call made while the cache holds an empty list under *)
(* its key issues a request.                                               *)
(***************************************************************************)
C19_OnlyNonEmptyServed ==
    /\ [](\A i \in Events("search") :
              LET e == h.log[i].v
              IN  e.hit
                      => /\ e.out = NoRequest
                         /\ e.exc = ""
                         /\ e.val.k = "arr"
                         /\ Len(e.val.v) >= 1
                         /\ e.stored >= 0
                         /\ e.stored <= e.at
                         /\ e.at - e.stored < CACHE_TIME
                         /\ e.key \in DOMAIN players_cache
                         /\ players_cache[e.key].val = e.val
                         /\ players_cache[e.key].stored = e.stored)
    /\ [][players_cache' # players_cache
              => /\ pc = "search_wait"
                 /\ ~LastSearch.hit
                 /\ LastSearch.exc = ""
                 /\ LastSearch.out.net = "ok"
                 /\ LastSearch.out.status < 400
                 /\ LastSearch.out.isJson
                 /\ players_cache'[LastSearch.key].val = LastSearch.val
                 /\ players_cache'[LastSearch.key].stored = now
      ]_vars
    /\ [][CallOnEmptyItem => pc' = "search_wait"]_vars

\* a call of search_players issued a request although the cache held a
\* live item, an empty list, under its key
C19_Witness ==
    /\ pc = "search_wait"
    /\ Live(players_cache, h.name, now)
    /\ players_cache[h.name].val = EmptyList
    /\ now > players_cache[h.name].stored

\* the first of the stored candidates the text of the update names
FirstNamed == CHOOSE j \in Named : \A k \in Named : j <= k

(***************************************************************************)
(* C20: in AwaitingSelection, when the text is the display name of several *)
(* stored candidates, get_min_price is called, and only with the slug of   *)
(* the first of them in stored order: a later candidate of that name is    *)
(* not the one priced.                                                     *)
(***************************************************************************)
C20_FirstOfSameName ==
    (/\ h.done
     /\ h.before = SELECT_PLAYER
     /\ Cardinality(Named) >= 2)
        => /\ Events("price") # {}
           /\ \A i \in Events("price") :
                  h.log[i].v.key = h.cands.v["players"].v[FirstNamed].v["slug"]
====
